---- MODULE Spec2Model ----
(***************************************************************************)
(* Booking orchestration of shelf.nu (app/utils/geolocate.server.ts):      *)
(* upsertBooking, getBookings, removeAssets and deleteBooking over the     *)
(* booking and asset tables, the job scheduler and the mail sender.        *)
(*                                                                         *)
(* Time is counted in whole hours.  Null stands for a null column (no      *)
(* date, no scheduler reference) and, in an argument, for a key that is    *)
(* not passed; "undefined" and "none" play the same parts for strings.     *)
(***************************************************************************)
EXTENDS Integers, Sequences, FiniteSets, TLC

\* ---------------------------------------------------------------- bounds
MaxCalls == 3
MaxJobs == 2
MaxRows == 3

\* ------------------------------------------------------------ enumerations
Null == 0

BookingStatus ==
  {"DRAFT", "RESERVED", "ONGOING", "OVERDUE", "COMPLETE", "ARCHIVED", "CANCELLED"}

AssetStatus == {"AVAILABLE", "IN_CUSTODY", "CHECKED_OUT"}

checkoutReminder == "checkoutReminder"

\* ------------------------------------------------- the rows outside booking
Assets == {"a1", "a2"}
Users == {"u1"}
Organizations == {"o1", "o2"}
Dates == {2}
BookingIds == {1}

\* db.teamMember: tm1 is linked to user u1, tm2 has no user; any other id
\* matches no team member.
teamMember == [tm1 |-> "u1", tm2 |-> "none"]
TeamMemberIds == {"tm1", "tm2"}
UnknownTeamMember == "tm9"

\* the custodian user's email column
UserEmail(u) == IF u \in Users THEN "mail" ELSE "none"

VARIABLES
  bookings,      \* db.booking: id -> row, DOMAIN = the ids stored
  nextBookingId, \* number of bookings ever created (ids are never reused)
  assetStatus,   \* db.asset: id -> status
  jobs,          \* scheduler: the pending jobs
  nextJobId,     \* scheduler: number of jobs ever sent
  last,          \* the last call: operation, argument, outcome, events
  calls,         \* number of calls made
  listed,        \* the last getBookings call: its query and what it returned
  procs,         \* the calls in flight: each one's place and local values
  selectedBulkItems \* selectedBulkItemsAtom: the list of selected item ids

vars ==
  <<bookings, nextBookingId, assetStatus, jobs, nextJobId, last, calls, listed,
    procs, selectedBulkItems>>

\* ------------------------------------------------------------------ rows
\* the result of findFirst when no row matches (b is null in `b?.x`)
NoBooking ==
  [name |-> "", status |-> "none", from |-> Null, to |-> Null, assets |-> {},
   custodianUser |-> "none", custodianTeamMember |-> "none",
   creator |-> "none", organization |-> "none",
   activeSchedulerReference |-> Null]

findFirst(id) == IF id \in DOMAIN bookings THEN bookings[id] ELSE NoBooking

\* the argument of a call; upsertBooking reads every field, removeAssets id
\* and assetIds, deleteBooking id
NoArg ==
  [id |-> Null, name |-> "undefined", status |-> "undefined",
   from |-> Null, to |-> Null,
   assetIds |-> {}, creatorId |-> "undefined", organizationId |-> "undefined",
   custodianTeamMemberId |-> "undefined", custodianUserId |-> "undefined"]

\* ------------------------------------------------------------- scheduler
\* scheduler.cancel(ref): the request removes the job unless it fails
cancelSheduler(b, pending, cancelOk) ==
  IF b.activeSchedulerReference # Null /\ cancelOk
  THEN {j \in pending : j.id # b.activeSchedulerReference}
  ELSE pending

cancelEvents(b, cancelOk) ==
  IF b.activeSchedulerReference # Null
  THEN <<[type |-> "cancel", job |-> b.activeSchedulerReference,
          ok |-> cancelOk]>>
  ELSE <<>>

\* reminderWhen without the hour taken off
reminderWhenAtFrom(from) == from

\* when = new Date(res.from); when.setHours(when.getHours() - 1)
reminderWhen(from) == from - 1

\* scheduler.sendAfter(key, data, {}, when) returns the id of a new job
sendAfter(key, bookingId, when, sent) ==
  [id |-> sent + 1, key |-> key, when |-> when, booking |-> bookingId]

\* ----------------------------------------------------------------- assets
updateBookinAssetStates(booking, status, st) ==
  [a \in Assets |->
     IF st[a] # status /\ a \in booking.assets THEN status ELSE st[a]]

\* -------------------------------------------------- upsertBooking: data
isTerminalState(status) == status \in {"ARCHIVED", "CANCELLED", "COMPLETE"}

\* lines 118-154: what the call does to the two custodian relations
\* ("keep", "disconnect" or the id to connect)
custodianUserData(arg) ==
  IF arg.custodianUserId # "undefined" THEN arg.custodianUserId
  ELSE IF arg.custodianTeamMemberId # "undefined"
       THEN IF teamMember[arg.custodianTeamMemberId] # "none"
            THEN teamMember[arg.custodianTeamMemberId]
            ELSE "disconnect"
       ELSE "keep"

custodianTeamMemberData(arg) ==
  IF arg.custodianUserId # "undefined" THEN "disconnect"
  ELSE IF arg.custodianTeamMemberId # "undefined"
       THEN arg.custodianTeamMemberId
       ELSE "keep"

teamMemberMissing(arg) ==
  /\ arg.custodianUserId = "undefined"
  /\ arg.custodianTeamMemberId # "undefined"
  /\ arg.custodianTeamMemberId \notin TeamMemberIds

\* bookingData that connects the creator and the organization passed
bookingDataWithOwner(arg) ==
  [name |-> arg.name, status |-> arg.status, from |-> arg.from, to |-> arg.to,
   assets |-> arg.assetIds,
   custodianUser |-> custodianUserData(arg),
   custodianTeamMember |-> custodianTeamMemberData(arg),
   creator |-> IF arg.creatorId # "undefined" THEN arg.creatorId ELSE "keep",
   organization |->
     IF arg.organizationId # "undefined" THEN arg.organizationId ELSE "keep"]

\* lines 101-117: data = { ...rest } plus the asset connections
bookingData(arg) ==
  [name |-> arg.name, status |-> arg.status, from |-> arg.from, to |-> arg.to,
   assets |-> arg.assetIds,
   custodianUser |-> custodianUserData(arg),
   custodianTeamMember |-> custodianTeamMemberData(arg),
   creator |-> "keep", organization |-> "keep"]

\* lines 277-287: creator and organization are connected while creating
createData(arg) ==
  [bookingData(arg) EXCEPT
     !.creator = IF arg.creatorId # "undefined" THEN arg.creatorId ELSE "keep",
     !.organization =
        IF arg.organizationId # "undefined" THEN arg.organizationId ELSE "keep"]

relation(old, op) ==
  IF op = "keep" THEN old ELSE IF op = "disconnect" THEN "none" ELSE op

\* db.booking.update({ where: { id }, data }): the row after the write
updatedRow(row, data) ==
  [name |-> IF data.name # "undefined" THEN data.name ELSE row.name,
   status |-> IF data.status # "undefined" THEN data.status ELSE row.status,
   from |-> IF data.from # Null THEN data.from ELSE row.from,
   to |-> IF data.to # Null THEN data.to ELSE row.to,
   assets |-> row.assets \cup data.assets,
   custodianUser |-> relation(row.custodianUser, data.custodianUser),
   custodianTeamMember |->
     relation(row.custodianTeamMember, data.custodianTeamMember),
   creator |-> relation(row.creator, data.creator),
   organization |-> relation(row.organization, data.organization),
   activeSchedulerReference |-> row.activeSchedulerReference]

\* db.booking.create({ data }): the columns not given take their defaults
createdRow(data) == updatedRow([NoBooking EXCEPT !.status = "DRAFT"], data)

\* ------------------------------------------ upsertBooking: the side effects
\* newAssetStatus without the release of the assets of an ended booking
newAssetStatusNoRelease(arg, oldBooking, res) ==
  IF \/ arg.status = "ONGOING"
     \/ (res.status = "ONGOING" /\ arg.assetIds # {})
  THEN "CHECKED_OUT"
  ELSE "none"

\* newAssetStatus that checks assets out on the status change only, not when
\* assets are added to an ongoing booking
newAssetStatusOnStatusOnly(arg, oldBooking, res) ==
  IF arg.status = "ONGOING"
  THEN "CHECKED_OUT"
  ELSE IF /\ isTerminalState(arg.status)
          /\ oldBooking.status \in {"ONGOING", "OVERDUE"}
       THEN "AVAILABLE"
       ELSE "none"

\* lines 169-178 and 196-203: the status the booking's assets are moved to
\* ("none": no asset update)
newAssetStatus(arg, oldBooking, res) ==
  IF \/ arg.status = "ONGOING"
     \/ (res.status = "ONGOING" /\ arg.assetIds # {})
  THEN "CHECKED_OUT"
  ELSE IF /\ isTerminalState(arg.status)
          /\ oldBooking.status \in {"ONGOING", "OVERDUE"}
       THEN "AVAILABLE"
       ELSE "none"

\* lines 209 and 292: a checkout reminder is scheduled
reminderDue(arg, res) == res.from # Null /\ arg.status = "RESERVED"

\* calcTimeDifference(res.to, new Date()).hours
hoursLeft(to, now) == to - now

\* line 264: new Date(), read where the check-in reminder is decided
clockRead(arg, res, now) ==
  IF /\ arg.status = "ONGOING"
     /\ UserEmail(res.custodianUser) # "none"
     /\ res.to # Null
  THEN <<[type |-> "now", hour |-> now]>>
  ELSE <<>>

\* statusEmails that keeps the reserved subject and text for COMPLETE
statusEmailsReservedOnly(arg, res, now) ==
  IF arg.status = "undefined" \/ UserEmail(res.custodianUser) = "none" THEN <<>>
  ELSE IF arg.status = "RESERVED" \/ arg.status = "COMPLETE"
       THEN <<[type |-> "email", subject |-> "Booking reserved",
               text |-> "assetReservedEmailContent"]>>
  ELSE IF arg.status = "ONGOING" /\ res.to # Null /\ hoursLeft(res.to, now) < 1
       THEN <<[type |-> "sendCheckinReminder"]>>
  ELSE <<>>

\* statusEmails that sends the check-in reminder with a whole hour still left
\* (hours <= 1)
statusEmailsHourLeft(arg, res, now) ==
  IF arg.status = "undefined" \/ UserEmail(res.custodianUser) = "none" THEN <<>>
  ELSE IF arg.status = "RESERVED"
       THEN <<[type |-> "email", subject |-> "Booking reserved",
               text |-> "assetReservedEmailContent"]>>
  ELSE IF arg.status = "COMPLETE"
       THEN <<[type |-> "email", subject |-> "Booking completed",
               text |-> "completedBookingEmailContent"]>>
  ELSE IF arg.status = "ONGOING" /\ res.to # Null /\ hoursLeft(res.to, now) <= 1
       THEN <<[type |-> "sendCheckinReminder"]>>
  ELSE <<>>

\* lines 221-271: the mails of an update, as events
statusEmails(arg, res, now) ==
  IF arg.status = "undefined" \/ UserEmail(res.custodianUser) = "none" THEN <<>>
  ELSE IF arg.status = "RESERVED"
       THEN <<[type |-> "email", subject |-> "Booking reserved",
               text |-> "assetReservedEmailContent"]>>
  ELSE IF arg.status = "COMPLETE"
       THEN <<[type |-> "email", subject |-> "Booking completed",
               text |-> "completedBookingEmailContent"]>>
  ELSE IF arg.status = "ONGOING" /\ res.to # Null /\ hoursLeft(res.to, now) < 1
       THEN <<[type |-> "sendCheckinReminder"]>>
  ELSE <<>>

\* lines 209-220 and 292-301: cancelSheduler(res), then scheduleNextBookingJob
scheduleEvents(id, res, sent, cancelOk) ==
  cancelEvents(res, cancelOk)
  \o <<[type |-> "sendAfter", job |-> sent + 1, key |-> checkoutReminder,
        booking |-> id, when |-> reminderWhen(res.from)],
       [type |-> "setReference", booking |-> id, job |-> sent + 1]>>

scheduledJobs(id, res, pending, sent, cancelOk) ==
  cancelSheduler(res, pending, cancelOk)
  \cup {sendAfter(checkoutReminder, id, reminderWhen(res.from), sent)}

assetEvents(status) ==
  IF status = "none" THEN <<>> ELSE <<[type |-> "updateMany", status |-> status]>>

\* Outcome of a call that awaits scheduler.cancel without catching: a failed
\* cancel rejects the call
OutcomeCancelRejects(b, nb, st, js, nj, outcome, events) ==
  [bookings |-> b, nextBookingId |-> nb, assetStatus |-> st, jobs |-> js,
   nextJobId |-> nj,
   outcome |-> IF \E i \in DOMAIN events :
                    events[i].type = "cancel" /\ ~events[i].ok
               THEN "throw" ELSE outcome,
   events |-> events]

\* the state a call leaves, with its outcome and the events in program order
Outcome(b, nb, st, js, nj, outcome, events) ==
  [bookings |-> b, nextBookingId |-> nb, assetStatus |-> st, jobs |-> js,
   nextJobId |-> nj, outcome |-> outcome, events |-> events]

Unchanged(outcome, events) ==
  Outcome(bookings, nextBookingId, assetStatus, jobs, nextJobId, outcome, events)

\* lines 156-275: the update path (id given).  The asset update, the cancel,
\* the scheduling and the mail are all started before Promise.all is awaited
\* (lines 205-273), so when the mail rejects the call throws and the other
\* effects still take place.
updateBooking(arg, mailOk, cancelOk, now) ==
  LET id == arg.id
      oldBooking == IF isTerminalState(arg.status) THEN findFirst(id) ELSE NoBooking
      cancelled == IF isTerminalState(arg.status)
                   THEN cancelSheduler(oldBooking, jobs, cancelOk) ELSE jobs
      early == IF isTerminalState(arg.status) THEN cancelEvents(oldBooking, cancelOk)
               ELSE <<>>
  IN IF id \notin DOMAIN bookings
     THEN Outcome(bookings, nextBookingId, assetStatus, cancelled, nextJobId,
                  "throw", early)
     ELSE
       LET res == updatedRow(bookings[id], bookingData(arg))
           status == newAssetStatus(arg, oldBooking, res)
           due == reminderDue(arg, res)
           mails == statusEmails(arg, res, now)
           stored == IF due
                     THEN [res EXCEPT !.activeSchedulerReference = nextJobId + 1]
                     ELSE res
       IN Outcome(
            [bookings EXCEPT ![id] = stored],
            nextBookingId,
            IF status = "none" THEN assetStatus
            ELSE updateBookinAssetStates(res, status, assetStatus),
            IF due THEN scheduledJobs(id, res, cancelled, nextJobId, cancelOk)
            ELSE cancelled,
            IF due THEN nextJobId + 1 ELSE nextJobId,
            IF mails # <<>> /\ ~mailOk THEN "throw" ELSE "ok",
            early \o <<[type |-> "update", booking |-> id]>>
              \o assetEvents(status)
              \o (IF due THEN scheduleEvents(id, res, nextJobId, cancelOk) ELSE <<>>)
              \o clockRead(arg, res, now)
              \o mails)

\* lines 277-302: the create path (no id)
createBooking(arg, cancelOk) ==
  LET id == nextBookingId + 1
      res == createdRow(createData(arg))
      due == reminderDue(arg, res)
      stored == IF due
                THEN [res EXCEPT !.activeSchedulerReference = nextJobId + 1]
                ELSE res
  IN Outcome(
       (id :> stored) @@ bookings,
       id,
       assetStatus,
       IF due THEN scheduledJobs(id, res, jobs, nextJobId, cancelOk) ELSE jobs,
       IF due THEN nextJobId + 1 ELSE nextJobId,
       "ok",
       <<[type |-> "create", booking |-> id]>>
         \o (IF due THEN scheduleEvents(id, res, nextJobId, cancelOk) ELSE <<>>))

\* upsertBookingResult that looks the team member up after the scheduler of
\* an ended booking is cancelled
upsertBookingResultLateLookup(arg, mailOk, cancelOk, now) ==
  IF teamMemberMissing(arg)
  THEN IF arg.id # Null /\ isTerminalState(arg.status)
       THEN Outcome(bookings, nextBookingId, assetStatus,
                    cancelSheduler(findFirst(arg.id), jobs, TRUE), nextJobId,
                    "Cannot find team member", <<>>)
       ELSE Unchanged("Cannot find team member", <<>>)
  ELSE IF arg.id # Null THEN updateBooking(arg, mailOk, cancelOk, now)
  ELSE createBooking(arg, cancelOk)

\* lines 84-303
upsertBookingResult(arg, mailOk, cancelOk, now) ==
  IF teamMemberMissing(arg) THEN Unchanged("Cannot find team member", <<>>)
  ELSE IF arg.id # Null THEN updateBooking(arg, mailOk, cancelOk, now)
  ELSE createBooking(arg, cancelOk)

\* lines 415-429
removeAssetsResult(arg) ==
  IF arg.id \notin DOMAIN bookings THEN Unchanged("throw", <<>>)
  ELSE Outcome(
         [bookings EXCEPT ![arg.id].assets = @ \ arg.assetIds],
         nextBookingId, assetStatus, jobs, nextJobId, "ok",
         <<[type |-> "update", booking |-> arg.id]>>)

\* lines 451-471: the mail of deleteBooking
deletedEmails(b) ==
  IF UserEmail(b.custodianUser) = "none" THEN <<>>
  ELSE <<[type |-> "email", subject |-> "Booking deleted",
          text |-> "deletedBookingEmailContent"]>>

\* lines 431-480.  The mail is awaited (line 466) before the asset update and
\* the cancel: when it rejects, the call throws with the row deleted and
\* neither of the two done.
deleteBookingResult(arg, mailOk, cancelOk) ==
  LET id == arg.id
      activeBooking ==
        IF findFirst(id).status \in {"OVERDUE", "ONGOING"}
        THEN findFirst(id) ELSE NoBooking
  IN IF id \notin DOMAIN bookings THEN Unchanged("throw", <<>>)
     ELSE
       LET b == bookings[id]
           rest == [i \in DOMAIN bookings \ {id} |-> bookings[i]]
           mails == deletedEmails(b)
           deleted == <<[type |-> "delete", booking |-> id]>>
           status == IF activeBooking.status # "none" THEN "AVAILABLE" ELSE "none"
       IN IF mails # <<>> /\ ~mailOk
          THEN Outcome(rest, nextBookingId, assetStatus, jobs, nextJobId,
                       "throw", deleted \o mails)
          ELSE Outcome(
                 rest, nextBookingId,
                 IF status = "none" THEN assetStatus
                 ELSE updateBookinAssetStates(b, status, assetStatus),
                 cancelSheduler(b, jobs, cancelOk),
                 nextJobId, "ok",
                 deleted \o mails \o assetEvents(status)
                   \o cancelEvents(b, cancelOk))

\* ------------------------------------------------------------ getBookings
\* line 336
skip(page, perPage) == IF page > 1 THEN (page - 1) * perPage ELSE 0

\* line 337
take(perPage) == IF perPage >= 1 /\ perPage <= 100 THEN perPage ELSE 20

\* search.trim()
trim(search) ==
  CASE search = " KIT " -> "KIT"
    [] search = "  " -> ""
    [] OTHER -> search

\* name: { contains: ..., mode: "insensitive" }
contains(name, sub) ==
  \/ sub = ""
  \/ sub \in {"KIT", "kit"} /\ name \in {"Camera kit", "Kit bag"}
  \/ sub = name

\* lines 365-372: assets: { some: { id: { in: assetIds } } }
someAssetIn(row, assetIds) == row.assets \cap assetIds # {}

\* inWindow with strict comparisons: a booking that only touches the window
\* is left out
inWindowStrict(row, bookingFrom, bookingTo) ==
  /\ row.from # Null
  /\ row.to # Null
  /\ \/ row.from < bookingTo /\ row.to > bookingFrom
     \/ row.from > bookingFrom /\ row.to < bookingTo

\* lines 379-390: the OR of the two date conditions (a null date matches none)
inWindow(row, bookingFrom, bookingTo) ==
  /\ row.from # Null
  /\ row.to # Null
  /\ \/ row.from <= bookingTo /\ row.to >= bookingFrom
     \/ row.from >= bookingFrom /\ row.to <= bookingTo

\* statusFilter that leaves archived bookings out whatever is asked for
statusFilterNeverArchived(row, statuses) ==
  /\ row.status \notin {"ARCHIVED"}
  /\ statuses # {} => row.status \in statuses

\* lines 355-363
statusFilter(row, statuses) ==
  IF statuses # {} THEN row.status \in statuses ELSE row.status \notin {"ARCHIVED"}

\* lines 342-354 and 365-390: the filters on the name, the custodian, the
\* assets, the excluded ids and the dates
otherFilters(q, id, row) ==
  /\ trim(q.search) # "" => contains(row.name, trim(q.search))
  /\ q.custodianTeamMemberId # "undefined" =>
       row.custodianTeamMember = q.custodianTeamMemberId
  /\ q.custodianUserId # "undefined" => row.custodianUser = q.custodianUserId
  /\ q.assetIds # {} => someAssetIn(row, q.assetIds)
  /\ q.excludeBookingIds # {} => id \notin q.excludeBookingIds
  /\ (q.bookingFrom # Null /\ q.bookingTo # Null) =>
       inWindow(row, q.bookingFrom, q.bookingTo)

\* lines 339-390: the where object applied to the row with this id
where(q, id, row) ==
  /\ row.organization = q.organizationId
  /\ statusFilter(row, q.statuses)
  /\ otherFilters(q, id, row)

\* orderBy: { from: "asc" }: a row with a null from comes after the others
fromAsc(r1, r2) == r2.from = Null \/ (r1.from # Null /\ r1.from <= r2.from)

\* the orders the store may return the matching rows in: it sorts them by
\* from and leaves rows with equal from in any order
ordered(ids) ==
  {o \in [1..Cardinality(ids) -> ids] :
     /\ \A i, j \in DOMAIN o : i < j => o[i] # o[j]
     /\ \A i, j \in DOMAIN o : i < j => fromAsc(bookings[o[i]], bookings[o[j]])}

\* findMany({ skip, take, ... }) over the sorted rows
page(rows, sk, tk) ==
  [i \in 1..(IF Len(rows) - sk < tk
             THEN (IF Len(rows) - sk > 0 THEN Len(rows) - sk ELSE 0)
             ELSE tk) |-> rows[sk + i]]

NoQuery ==
  [organizationId |-> "none", page |-> 1, perPage |-> 8, search |-> "",
   statuses |-> {}, custodianUserId |-> "undefined",
   custodianTeamMemberId |-> "undefined", assetIds |-> {},
   excludeBookingIds |-> {}, bookingFrom |-> Null, bookingTo |-> Null]

\* before any getBookings call: the query of no organization, nothing returned
NotListed ==
  [query |-> [organizationId |-> "none"], sorted |-> <<>>, bookings |-> <<>>,
   bookingCount |-> 0]

\* lines 305-413: the query, the matching rows in the store's order, the
\* rows of the page and the count
getBookingsResult(q, sorted) ==
  [query |-> q, sorted |-> sorted,
   bookings |-> page(sorted, skip(q.page, q.perPage), take(q.perPage)),
   bookingCount |-> Cardinality({id \in DOMAIN bookings : where(q, id, bookings[id])})]

\* ------------------------------------------------------- calls in flight
\* the calls that run at the same time; procs maps each call in flight to
\* its place and local values.  When calls are taken one at a time (Call
\* below) none is in flight.
Procs == {"p1", "p2"}

NoProc ==
  [pc |-> "idle", op |-> "none", arg |-> NoArg, oldBooking |-> NoBooking,
   res |-> NoBooking, status |-> "none", job |-> Null, outcome |-> "none",
   cancelFailed |-> FALSE]

NoProcs == <<>>

\* ---------------------------------------------------------------- actions
Call(op, arg, r) ==
  /\ bookings' = r.bookings
  /\ nextBookingId' = r.nextBookingId
  /\ assetStatus' = r.assetStatus
  /\ jobs' = r.jobs
  /\ nextJobId' = r.nextJobId
  /\ last' = [op |-> op, arg |-> arg, outcome |-> r.outcome, events |-> r.events]
  /\ calls' = calls + 1
  /\ UNCHANGED <<listed, procs, selectedBulkItems>>

\* the arguments the calls are tried with.  A create is tried with every
\* status (or none) together with assets to add, with dates, with a
\* custodian, or with an owner; an update with every status (or none)
\* together with assets to add or with a custodian, and with dates or an
\* owner alone.
StatusArgs == BookingStatus \cup {"undefined"}
AssetArgs == {{}} \cup {{a} : a \in Assets}
DateArgs == {<<f, t>> : f \in Dates \cup {Null}, t \in Dates \cup {Null}}
CustodianArgs ==
  {<<"u1", "undefined">>, <<"undefined", "tm1">>, <<"undefined", "tm2">>,
   <<"undefined", UnknownTeamMember>>}
OwnerArgs == {<<"c1", "o1", "Camera kit">>, <<"c2", "o2", "Drone">>}

ArgsWith(base) ==
  {[base EXCEPT !.assetIds = as] : as \in AssetArgs}
  \cup {[base EXCEPT !.from = d[1], !.to = d[2]] : d \in DateArgs}
  \cup {[base EXCEPT !.custodianUserId = c[1], !.custodianTeamMemberId = c[2]] :
          c \in CustodianArgs}
  \cup {[base EXCEPT !.creatorId = o[1], !.organizationId = o[2],
                       !.name = o[3]] : o \in OwnerArgs}

ArgsWithStatus(base) ==
  {[base EXCEPT !.assetIds = as] : as \in AssetArgs}
  \cup {[base EXCEPT !.custodianUserId = c[1], !.custodianTeamMemberId = c[2]] :
          c \in CustodianArgs}

UpsertArgs(id) ==
  IF id = Null
  THEN UNION {ArgsWith([NoArg EXCEPT !.id = id, !.status = s]) : s \in StatusArgs}
  ELSE ArgsWith([NoArg EXCEPT !.id = id])
       \cup UNION {ArgsWithStatus([NoArg EXCEPT !.id = id, !.status = s]) :
                     s \in StatusArgs}

\* what the environment decides during a call, where the call gets to ask:
\* whether the mail is sent, whether the scheduler's cancel succeeds, and
\* the hour of the clock
MailOk(arg, now) ==
  IF /\ arg.id \in DOMAIN bookings
     /\ ~teamMemberMissing(arg)
     /\ statusEmails(arg, updatedRow(bookings[arg.id], bookingData(arg)), now)
          # <<>>
  THEN BOOLEAN ELSE {TRUE}
CancelOk(arg) ==
  IF /\ findFirst(arg.id).activeSchedulerReference # Null
     /\ ~teamMemberMissing(arg)
     /\ \/ isTerminalState(arg.status)
        \/ reminderDue(arg, updatedRow(bookings[arg.id], bookingData(arg)))
  THEN BOOLEAN ELSE {TRUE}
Now(arg) ==
  IF /\ arg.id \in DOMAIN bookings
     /\ ~teamMemberMissing(arg)
     /\ clockRead(arg, updatedRow(bookings[arg.id], bookingData(arg)), 1) # <<>>
  THEN {1, 2} ELSE {1}

Init ==
  /\ bookings = <<>>
  /\ nextBookingId = 0
  /\ assetStatus = [a \in Assets |-> "AVAILABLE"]
  /\ jobs = {}
  /\ nextJobId = 0
  /\ last = [op |-> "none", arg |-> NoArg, outcome |-> "ok", events |-> <<>>]
  /\ calls = 0
  /\ listed = NotListed
  /\ procs = NoProcs
  /\ selectedBulkItems = <<>>

upsertBooking ==
  /\ calls < MaxCalls
  /\ \E id \in BookingIds \cup {Null} :
    /\ id = Null => nextBookingId < Cardinality(BookingIds)
    /\ \E arg \in UpsertArgs(id) :
        \E now \in Now(arg), cancelOk \in CancelOk(arg) :
          \E mailOk \in MailOk(arg, now) :
          LET r == upsertBookingResult(arg, mailOk, cancelOk, now)
          IN /\ r.nextJobId <= MaxJobs
             /\ Call("upsertBooking", arg, r)

removeAssets ==
  \E id \in BookingIds, as \in AssetArgs \ {{}} :
    LET arg == [NoArg EXCEPT !.id = id, !.assetIds = as]
    IN calls < MaxCalls /\ Call("removeAssets", arg, removeAssetsResult(arg))

deleteBooking ==
  /\ calls < MaxCalls
  /\ \E id \in BookingIds :
       \E mailOk \in (IF deletedEmails(findFirst(id)) # <<>> THEN BOOLEAN
                      ELSE {TRUE}),
          cancelOk \in (IF findFirst(id).activeSchedulerReference # Null
                        THEN BOOLEAN ELSE {TRUE}) :
         LET arg == [NoArg EXCEPT !.id = id]
         IN Call("deleteBooking", arg, deleteBookingResult(arg, mailOk, cancelOk))

Next == upsertBooking \/ removeAssets \/ deleteBooking

Spec == Init /\ [][Next]_vars

\* ================================================================ claims
\* the events of the last call
Events == {last.events[i] : i \in DOMAIN last.events}
EventsOf(type) == {e \in Events : e.type = type}

\* the last call was an upsertBooking that wrote an existing booking
Updated ==
  /\ last.op = "upsertBooking"
  /\ last.arg.id \in DOMAIN bookings
  /\ EventsOf("update") # {}

\* C1: an update to ARCHIVED, CANCELLED or COMPLETE of a booking stored as
\* ONGOING or OVERDUE leaves every asset of the booking AVAILABLE when the
\* call returns; from any other stored status it changes no asset's status.
C1_EndedBookingReleasesAssets ==
  [][(/\ last'.op = "upsertBooking"
      /\ last'.arg.id \in DOMAIN bookings
      /\ isTerminalState(last'.arg.status))
     => IF bookings[last'.arg.id].status \in {"ONGOING", "OVERDUE"}
        THEN last'.outcome = "ok" =>
               \A a \in bookings'[last'.arg.id].assets :
                 assetStatus'[a] = "AVAILABLE"
        ELSE assetStatus' = assetStatus]_vars

C1_Witness ==
  /\ Updated
  /\ last.arg.status = "COMPLETE"
  /\ last.outcome = "ok"
  /\ [type |-> "updateMany", status |-> "AVAILABLE"] \in Events
  /\ bookings[last.arg.id].assets = Assets
  /\ \A a \in Assets : assetStatus[a] = "AVAILABLE"

\* C2: after an update with status ONGOING, or one that adds assets to a
\* booking that is ONGOING after the update, every asset attached to the
\* booking, the added ones included, is CHECKED_OUT when the call returns.
C2_OngoingChecksOutAssets ==
  (/\ Updated
   /\ last.outcome = "ok"
   /\ \/ last.arg.status = "ONGOING"
      \/ (last.arg.assetIds # {} /\ bookings[last.arg.id].status = "ONGOING"))
  => /\ last.arg.assetIds \subseteq bookings[last.arg.id].assets
     /\ \A a \in bookings[last.arg.id].assets : assetStatus[a] = "CHECKED_OUT"

C2_Witness ==
  /\ Updated
  /\ last.outcome = "ok"
  /\ last.arg.status = "undefined"
  /\ last.arg.assetIds = {"a2"}
  /\ bookings[last.arg.id].status = "ONGOING"
  /\ bookings[last.arg.id].assets = {"a1", "a2"}
  /\ \A a \in Assets : assetStatus[a] = "CHECKED_OUT"

\* C3: a deleteBooking that removes an ONGOING or OVERDUE booking leaves all
\* the assets that were attached to it AVAILABLE; the delete of a booking in
\* any other status changes no asset's status.
C3_DeleteReleasesAssets ==
  [][(/\ last'.op = "deleteBooking"
      /\ last'.arg.id \in DOMAIN bookings
      /\ last'.arg.id \notin DOMAIN bookings')
     => IF bookings[last'.arg.id].status \in {"ONGOING", "OVERDUE"}
        THEN \A a \in bookings[last'.arg.id].assets :
               assetStatus'[a] = "AVAILABLE"
        ELSE assetStatus' = assetStatus]_vars

\* the booking an upsertBooking call wrote: the one created, or the one of
\* the id passed
Written ==
  IF last.arg.id = Null THEN nextBookingId ELSE last.arg.id

Wrote ==
  /\ last.op = "upsertBooking"
  /\ EventsOf("create") \cup EventsOf("update") # {}

SentAfter == {i \in DOMAIN last.events : last.events[i].type = "sendAfter"}

\* C4: an upsertBooking with status RESERVED whose booking has a from date
\* requests the cancel of the job of the previous activeSchedulerReference,
\* schedules exactly one checkout reminder for one hour before from and
\* stores its id in activeSchedulerReference; any other upsertBooking
\* schedules no job.
C4_ReservedSchedulesReminder ==
  [][last'.op = "upsertBooking"
     => IF /\ Wrote'
           /\ last'.arg.status = "RESERVED"
           /\ bookings'[Written'].from # Null
        THEN /\ findFirst(Written').activeSchedulerReference # Null =>
                  \E e \in EventsOf("cancel")' :
                    /\ e.job = findFirst(Written').activeSchedulerReference
                    /\ e.ok => \A j \in jobs' : j.id # e.job
             /\ Cardinality(SentAfter') = 1
             /\ \A i \in SentAfter' :
                  LET e == last'.events[i]
                      job == [id |-> e.job, key |-> checkoutReminder,
                              when |-> bookings'[Written'].from - 1,
                              booking |-> Written']
                  IN /\ e.key = checkoutReminder
                     /\ e.when = bookings'[Written'].from - 1
                     /\ jobs' \ jobs = {job}
                     /\ bookings'[Written'].activeSchedulerReference = e.job
        ELSE /\ SentAfter' = {}
             /\ jobs' \subseteq jobs
             /\ nextJobId' = nextJobId]_vars

C4_Witness ==
  /\ Updated
  /\ last.arg.status = "RESERVED"
  /\ \E c \in EventsOf("cancel"), e \in EventsOf("sendAfter") :
       /\ c.ok
       /\ c.job # e.job
       /\ bookings[last.arg.id].activeSchedulerReference = e.job
       /\ {j.id : j \in jobs} = {e.job}

\* C5: an update to ARCHIVED, CANCELLED or COMPLETE of a booking stored with
\* an activeSchedulerReference requests the cancel of that job before the
\* update is written, and deleteBooking requests the cancel of the
\* activeSchedulerReference of the booking it deletes.
C5_CancelRequested ==
  [][(/\ last'.op \in {"upsertBooking", "deleteBooking"}
      /\ last'.arg.id \in DOMAIN bookings
      /\ bookings[last'.arg.id].activeSchedulerReference # Null)
     => LET ref == bookings[last'.arg.id].activeSchedulerReference
            ev == last'.events
        IN /\ (Updated' /\ isTerminalState(last'.arg.status))
                => \E i, j \in DOMAIN ev :
                     /\ i < j
                     /\ ev[i].type = "cancel"
                     /\ ev[i].job = ref
                     /\ ev[j].type = "update"
           /\ last'.op = "deleteBooking"
                => \E i \in DOMAIN ev : ev[i].type = "cancel" /\ ev[i].job = ref]_vars

\* the mails of the last call
Mails == EventsOf("email") \cup EventsOf("sendCheckinReminder")

\* C6: on an update that passes a status for a booking whose custodian user
\* has an email address, RESERVED sends exactly one mail, the reserved one,
\* COMPLETE exactly one, the completed one, and CANCELLED, ARCHIVED and
\* OVERDUE none; an update with no status, or for a booking whose custodian
\* user has no email address, sends none.
C6_StatusEmails ==
  Updated =>
    LET status == last.arg.status
        email == UserEmail(bookings[last.arg.id].custodianUser)
    IN /\ (status = "undefined" \/ email = "none") => Mails = {}
       /\ (status = "RESERVED" /\ email # "none") =>
            /\ Cardinality({i \in DOMAIN last.events :
                              last.events[i] \in Mails}) = 1
            /\ Mails = {[type |-> "email", subject |-> "Booking reserved",
                         text |-> "assetReservedEmailContent"]}
       /\ (status = "COMPLETE" /\ email # "none") =>
            /\ Cardinality({i \in DOMAIN last.events :
                              last.events[i] \in Mails}) = 1
            /\ Mails = {[type |-> "email", subject |-> "Booking completed",
                         text |-> "completedBookingEmailContent"]}
       /\ status \in {"CANCELLED", "ARCHIVED", "OVERDUE"} => Mails = {}

C6_Witness ==
  /\ Updated
  /\ last.arg.status = "COMPLETE"
  /\ UserEmail(bookings[last.arg.id].custodianUser) # "none"
  /\ \E e \in EventsOf("email") : e.subject = "Booking completed"

\* C9: upsertBooking with the id of an existing booking leaves the booking's
\* creator and organization as they were, whatever creatorId and
\* organizationId are passed; without an id it connects the ones passed.
C9_OwnerSetOnCreateOnly ==
  [][last'.op = "upsertBooking"
     => /\ last'.arg.id \in DOMAIN bookings =>
             /\ last'.arg.id \in DOMAIN bookings'
             /\ bookings'[last'.arg.id].creator = bookings[last'.arg.id].creator
             /\ bookings'[last'.arg.id].organization =
                  bookings[last'.arg.id].organization
        /\ (last'.arg.id = Null /\ EventsOf("create")' # {}) =>
             /\ last'.arg.creatorId # "undefined" =>
                  bookings'[Written'].creator = last'.arg.creatorId
             /\ last'.arg.organizationId # "undefined" =>
                  bookings'[Written'].organization = last'.arg.organizationId]_vars

C9_Witness ==
  /\ Updated
  /\ last.outcome = "ok"
  /\ last.arg.creatorId = "c2"
  /\ last.arg.organizationId = "o2"
  /\ bookings[last.arg.id].creator = "c1"
  /\ bookings[last.arg.id].organization = "o1"

\* C10: after any sequence of calls every asset attached to an ONGOING or
\* OVERDUE booking is CHECKED_OUT.
C10_ActiveBookingAssetsCheckedOut ==
  \A id \in DOMAIN bookings :
    bookings[id].status \in {"ONGOING", "OVERDUE"} =>
      \A a \in bookings[id].assets : assetStatus[a] = "CHECKED_OUT"

\* C14: an upsertBooking without custodianUserId whose custodianTeamMemberId
\* matches no team member fails with "Cannot find team member" and changes
\* nothing: no booking is created or updated, no asset status changes, no
\* job is cancelled or scheduled and no mail is sent.
C14_UnknownTeamMemberChangesNothing ==
  [][(/\ last'.op = "upsertBooking"
      /\ last'.arg.custodianUserId = "undefined"
      /\ last'.arg.custodianTeamMemberId \notin TeamMemberIds \cup {"undefined"})
     => /\ last'.outcome = "Cannot find team member"
        /\ last'.events = <<>>
        /\ UNCHANGED <<bookings, nextBookingId, assetStatus, jobs, nextJobId>>]_vars

C14_Witness ==
  /\ last.op = "upsertBooking"
  /\ last.outcome = "Cannot find team member"
  /\ last.arg.custodianTeamMemberId = UnknownTeamMember
  /\ isTerminalState(last.arg.status)
  /\ last.arg.id \in DOMAIN bookings
  /\ bookings[last.arg.id].activeSchedulerReference # Null
  /\ \E j \in jobs : j.id = bookings[last.arg.id].activeSchedulerReference

\* the events with every cancel marked as succeeded
cancelsOk(events) ==
  [i \in DOMAIN events |->
     IF events[i].type = "cancel" THEN [events[i] EXCEPT !.ok = TRUE]
     ELSE events[i]]

\* the jobs whose cancel the last call requested in vain
FailedCancels == {e.job : e \in {c \in EventsOf("cancel") : ~c.ok}}

\* what the environment decided in the last call besides the cancels: the
\* mail went out unless the call threw, and the hour is the one it read
MailWasOk == last.outcome = "ok"
ClockWas ==
  IF \E i \in DOMAIN last.events : last.events[i].type = "now"
  THEN (CHOOSE e \in EventsOf("now") : TRUE).hour
  ELSE 1

\* a cancel of the last call failed
CancelFailed ==
  \E i \in DOMAIN last.events :
    last.events[i].type = "cancel" /\ ~last.events[i].ok

\* the call r that would have been made had its cancels succeeded left the
\* state the last call left, up to the jobs that were not cancelled
SameButCancel(r) ==
  /\ r.bookings = bookings'
  /\ r.nextBookingId = nextBookingId'
  /\ r.assetStatus = assetStatus'
  /\ r.nextJobId = nextJobId'
  /\ r.outcome = last'.outcome
  /\ r.events = cancelsOk(last'.events)
  /\ r.jobs \subseteq jobs'
  /\ jobs' \ r.jobs = {j \in jobs : j.id \in FailedCancels'}

\* C15: an upsertBooking or deleteBooking whose scheduler cancel fails ends
\* as the same call does when the cancel succeeds: same outcome, same
\* bookings, same asset statuses, same events after the cancel; only the
\* job that was to be cancelled stays pending.
C15_CancelFailureChangesNothingElse ==
  [][CancelFailed'
     => /\ last'.op \in {"upsertBooking", "deleteBooking"}
        /\ last'.op = "upsertBooking" =>
             SameButCancel(upsertBookingResult(last'.arg, MailWasOk', TRUE,
                                               ClockWas'))
        /\ last'.op = "deleteBooking" =>
             SameButCancel(deleteBookingResult(last'.arg, MailWasOk', TRUE))]_vars

C15_Witness ==
  /\ Updated
  /\ isTerminalState(last.arg.status)
  /\ last.outcome = "ok"
  /\ FailedCancels # {}
  /\ bookings[last.arg.id].status = last.arg.status
  /\ [type |-> "updateMany", status |-> "AVAILABLE"] \in Events
  /\ \E j \in jobs : j.id \in FailedCancels

\* C16: an update with status ONGOING of a booking whose custodian user has
\* an email address and which has a to date sends the check-in reminder if
\* and only if fewer than one whole hour is left from the clock's time to
\* the to date, and sends no reserved or completed mail.
C16_CheckinReminderWithinTheHour ==
  (/\ Updated
   /\ last.arg.status = "ONGOING"
   /\ UserEmail(bookings[last.arg.id].custodianUser) # "none"
   /\ bookings[last.arg.id].to # Null)
  => /\ Cardinality(EventsOf("now")) = 1
     /\ \A e \in EventsOf("now") :
          EventsOf("sendCheckinReminder") # {}
            <=> hoursLeft(bookings[last.arg.id].to, e.hour) < 1
     /\ Cardinality({i \in DOMAIN last.events :
                       last.events[i].type = "sendCheckinReminder"}) <= 1
     /\ EventsOf("email") = {}

\* the reminder is sent with no hour left, and in another call held back with
\* one hour left
C16_Witness ==
  /\ Updated
  /\ last.arg.status = "ONGOING"
  /\ UserEmail(bookings[last.arg.id].custodianUser) # "none"
  /\ bookings[last.arg.id].to # Null
  /\ EventsOf("sendCheckinReminder") # {}
  /\ \E e \in EventsOf("now") : hoursLeft(bookings[last.arg.id].to, e.hour) = 0

C16_WitnessHeldBack ==
  /\ Updated
  /\ last.arg.status = "ONGOING"
  /\ UserEmail(bookings[last.arg.id].custodianUser) # "none"
  /\ EventsOf("sendCheckinReminder") = {}
  /\ \E e \in EventsOf("now") : hoursLeft(bookings[last.arg.id].to, e.hour) = 1

\* C11: after any sequence of calls an asset is CHECKED_OUT only if it is
\* attached to some booking whose status is ONGOING or OVERDUE; an asset that
\* removeAssets took off an ONGOING booking is not left CHECKED_OUT.
C11_CheckedOutOnlyInActiveBooking ==
  \A a \in Assets :
    assetStatus[a] = "CHECKED_OUT" =>
      \E id \in DOMAIN bookings :
        /\ a \in bookings[id].assets
        /\ bookings[id].status \in {"ONGOING", "OVERDUE"}

\* ------------------------------------------- getBookings over a drawn table
\* the tables getBookings is tried on: row i has the name, custodian and
\* assets of its place, and one of these organizations, statuses, from and to.
\* upsertBooking stores the from and to it is passed as they are (line 110),
\* so a row may have its from after its to.
RowKinds ==
  {<<"o1", "RESERVED", 2, 3>>, <<"o1", "RESERVED", 3, 3>>,
   <<"o1", "ARCHIVED", 2, 2>>, <<"o1", "ONGOING", Null, Null>>,
   <<"o1", "DRAFT", 3, 4>>, <<"o2", "RESERVED", 2, 2>>,
   <<"o2", "ARCHIVED", 3, 4>>, <<"o1", "RESERVED", 4, 2>>}

rowOf(i, k) ==
  [name |-> IF i % 3 = 1 THEN "Camera kit" ELSE IF i % 3 = 2 THEN "Drone" ELSE "Kit bag",
   status |-> k[2], from |-> k[3], to |-> k[4],
   assets |-> IF i % 3 = 1 THEN {"a1"} ELSE IF i % 3 = 2 THEN {"a2"} ELSE {},
   custodianUser |-> IF i % 3 = 1 THEN "u1" ELSE "none",
   custodianTeamMember |-> IF i % 3 = 2 THEN "tm2" ELSE "none",
   creator |-> "c1", organization |-> k[1],
   activeSchedulerReference |-> Null]

Tables == {[i \in 1..MaxRows |-> rowOf(i, k[i])] : k \in [1..MaxRows -> RowKinds]}

\* the queries: one organization, and one of the other parameters off its
\* default
Pages == 0..3
PerPages == {0, 1, 2, 101}

Queries ==
  UNION {
    LET base == [NoQuery EXCEPT !.organizationId = org]
    IN {[base EXCEPT !.page = p, !.perPage = n] : p \in Pages, n \in PerPages}
       \cup {[base EXCEPT !.statuses = ss] :
               ss \in {{"ARCHIVED"}, {"RESERVED"}, {"RESERVED", "ARCHIVED"}}}
       \cup {[base EXCEPT !.search = x] : x \in {"  ", " KIT ", "Drone"}}
       \cup {[base EXCEPT !.custodianUserId = "u1"],
             [base EXCEPT !.custodianTeamMemberId = "tm2"],
             [base EXCEPT !.assetIds = {"a1"}],
             [base EXCEPT !.excludeBookingIds = {1}]}
       \cup {[base EXCEPT !.bookingFrom = w[1], !.bookingTo = w[2]] :
               w \in {<<2, Null>>, <<Null, 3>>, <<2, 2>>, <<3, 3>>, <<2, 3>>,
                      <<3, 4>>, <<4, 4>>}}
    : org \in Organizations}

InitQ ==
  /\ bookings \in Tables
  /\ nextBookingId = MaxRows
  /\ assetStatus = [a \in Assets |-> "AVAILABLE"]
  /\ jobs = {}
  /\ nextJobId = 0
  /\ last = [op |-> "none", arg |-> NoArg, outcome |-> "ok", events |-> <<>>]
  /\ calls = 0
  /\ listed = NotListed
  /\ procs = NoProcs
  /\ selectedBulkItems = <<>>

\* getBookings only reads the store: one call is tried on each table
getBookings ==
  /\ listed = NotListed
  /\ \E q \in Queries :
    \E sorted \in ordered({id \in DOMAIN bookings : where(q, id, bookings[id])}) :
      /\ listed' = getBookingsResult(q, sorted)
      /\ UNCHANGED <<bookings, nextBookingId, assetStatus, jobs, nextJobId,
                     last, calls, procs,
                     selectedBulkItems>>

NextQ == getBookings

SpecQ == InitQ /\ [][NextQ]_vars

\* ------------------------------------------------- claims on getBookings
Returned == {listed.bookings[i] : i \in DOMAIN listed.bookings}
Matching == {listed.sorted[i] : i \in DOMAIN listed.sorted}

\* C7: getBookings returns bookings of the organization asked for only; with
\* no statuses it matches the bookings of every status but ARCHIVED, with
\* statuses it matches exactly the bookings whose status is listed, both
\* subject to the other filters.
C7_OrganizationAndStatusFilter ==
  listed # NotListed =>
    LET q == listed.query
        mine == {id \in DOMAIN bookings :
                   /\ bookings[id].organization = q.organizationId
                   /\ otherFilters(q, id, bookings[id])}
    IN /\ Returned \subseteq Matching
       /\ \A id \in Returned : bookings[id].organization = q.organizationId
       /\ q.statuses = {} =>
            Matching = {id \in mine : bookings[id].status # "ARCHIVED"}
       /\ q.statuses # {} =>
            Matching = {id \in mine : bookings[id].status \in q.statuses}
       /\ listed.bookingCount = Cardinality(Matching)

C7_Witness ==
  /\ listed # NotListed
  /\ listed.query.statuses = {"RESERVED", "ARCHIVED"}
  /\ \E id \in Returned : bookings[id].status = "ARCHIVED"
  /\ \E id \in Returned : bookings[id].status = "RESERVED"
  /\ \E id \in DOMAIN bookings :
       bookings[id].organization # listed.query.organizationId

\* C8: page p >= 1 holds the rows at offsets (p-1)*n to p*n-1 of the
\* filtered, from-ascending result, n being the number of rows taken per
\* page; a page below 1 is the first page.
C8_PagesPartitionTheResult ==
  listed # NotListed =>
    LET n == take(listed.query.perPage)
        p == IF listed.query.page >= 1 THEN listed.query.page ELSE 1
        end == IF p * n < Len(listed.sorted) THEN p * n ELSE Len(listed.sorted)
    IN listed.bookings = SubSeq(listed.sorted, (p - 1) * n + 1, end)

\* the bookings the query matches with its date window taken off
MatchingUndated ==
  LET q == [listed.query EXCEPT !.bookingFrom = Null, !.bookingTo = Null]
  IN {id \in DOMAIN bookings : where(q, id, bookings[id])}

Overlaps(row, bookingFrom, bookingTo) ==
  /\ row.from # Null
  /\ row.to # Null
  /\ row.from <= bookingTo
  /\ row.to >= bookingFrom

Inside(row, bookingFrom, bookingTo) ==
  /\ row.from # Null
  /\ row.to # Null
  /\ row.from >= bookingFrom
  /\ row.to <= bookingTo

\* C17 as stated: with bookingFrom and bookingTo both passed, the bookings
\* matched are those matched by the other filters whose interval overlaps the
\* window (from <= bookingTo and to >= bookingFrom); with either missing, no
\* date filter is applied.
C17_DateWindowIsOverlap ==
  listed # NotListed =>
    LET q == listed.query
    IN IF q.bookingFrom # Null /\ q.bookingTo # Null
       THEN Matching = {id \in MatchingUndated :
                          Overlaps(bookings[id], q.bookingFrom, q.bookingTo)}
       ELSE Matching = MatchingUndated

\* C17 amended: with both passed, the bookings matched are those matched by
\* the other filters that overlap the window or lie inside it (from >=
\* bookingFrom and to <= bookingTo); for a booking whose from is not after
\* its to and a window whose bookingFrom is not after its bookingTo that is
\* exactly the overlap; with either missing, no date filter is applied.
C17_DateWindowIsOverlapOrInside ==
  listed # NotListed =>
    LET q == listed.query
    IN IF q.bookingFrom # Null /\ q.bookingTo # Null
       THEN /\ Matching =
                 {id \in MatchingUndated :
                    \/ Overlaps(bookings[id], q.bookingFrom, q.bookingTo)
                    \/ Inside(bookings[id], q.bookingFrom, q.bookingTo)}
            /\ q.bookingFrom <= q.bookingTo =>
                 \A id \in MatchingUndated :
                   (bookings[id].from # Null /\ bookings[id].to # Null
                    /\ bookings[id].from <= bookings[id].to)
                   => (id \in Matching
                         <=> Overlaps(bookings[id], q.bookingFrom, q.bookingTo))
       ELSE Matching = MatchingUndated

\* a booking with its from after its to is matched by a window it does not
\* overlap, next to one that overlaps and one that is filtered out
C17_Witness ==
  /\ listed # NotListed
  /\ listed.query.bookingFrom = 3
  /\ listed.query.bookingTo = 3
  /\ \E id \in Matching :
       /\ bookings[id].from > bookings[id].to
       /\ ~Overlaps(bookings[id], 3, 3)
  /\ \E id \in Matching : Overlaps(bookings[id], 3, 3)
  /\ MatchingUndated \ Matching # {}

\* ------------------------------------------- getBookings over a long table
\* tables of up to ManyRows bookings of one organization, each starting an
\* hour after the one before, so that orderBy from leaves them in one order
ManyRows == 27

manyRow(i) ==
  [NoBooking EXCEPT !.name = "Camera kit", !.status = "RESERVED", !.from = i,
                    !.to = i, !.creator = "c1", !.organization = "o1"]

PerPagesOfMany == {0, 1, 20, 25, 26, 100, 101}

QueriesOfMany ==
  {[NoQuery EXCEPT !.organizationId = "o1", !.page = p, !.perPage = n] :
     p \in Pages, n \in PerPagesOfMany}

InitP ==
  \E n \in 0..ManyRows :
    /\ bookings = [i \in 1..n |-> manyRow(i)]
    /\ nextBookingId = n
    /\ assetStatus = [a \in Assets |-> "AVAILABLE"]
    /\ jobs = {}
    /\ nextJobId = 0
    /\ last = [op |-> "none", arg |-> NoArg, outcome |-> "ok", events |-> <<>>]
    /\ calls = 0
    /\ listed = NotListed
    /\ procs = NoProcs
    /\ selectedBulkItems = <<>>

\* the matching rows by ascending from, which here is by ascending id
sortedOfMany(q) ==
  SelectSeq([i \in DOMAIN bookings |-> i], LAMBDA id : where(q, id, bookings[id]))

getBookingsOfMany ==
  /\ listed = NotListed
  /\ \E q \in QueriesOfMany :
       /\ listed' = getBookingsResult(q, sortedOfMany(q))
       /\ UNCHANGED <<bookings, nextBookingId, assetStatus, jobs, nextJobId,
                      last, calls, procs,
                     selectedBulkItems>>

NextP == getBookingsOfMany

SpecP == InitP /\ [][NextP]_vars

\* C18: whatever perPage is passed, one page holds at most 25 bookings, and
\* at least 1 when a matching booking is left after the pages before it.
C18_PageHoldsBetween1And25 ==
  listed # NotListed =>
    /\ Len(listed.bookings) <= 25
    /\ Len(listed.sorted) > skip(listed.query.page, listed.query.perPage) =>
         Len(listed.bookings) >= 1

\* ------------------------------------------ calls that run at the same time
\* Two calls on booking 1, each taken one await at a time: the store and the
\* scheduler serve each request as it arrives, and between two requests of
\* one call the requests of the other may be served.  The bookings of these
\* runs have no custodian, so no mail is sent.
StatusesC == {"RESERVED", "ONGOING", "ARCHIVED", "CANCELLED", "COMPLETE"}

CallsC ==
  {[op |-> "upsertBooking", arg |-> [NoArg EXCEPT !.id = 1, !.status = st]] :
     st \in StatusesC}
  \cup {[op |-> "deleteBooking", arg |-> [NoArg EXCEPT !.id = 1]]}

\* the stores the calls start from: booking 1 as a create, a reservation and
\* a checkout leave it
StoresC ==
  LET row == [NoBooking EXCEPT !.name = "Camera kit", !.from = 2, !.to = 2,
                               !.assets = {"a1"}, !.creator = "c1",
                               !.organization = "o1"]
      job == sendAfter(checkoutReminder, 1, reminderWhen(2), 0)
  IN {[row |-> [row EXCEPT !.status = "DRAFT"], jobs |-> {}, checkedOut |-> {}],
      [row |-> [row EXCEPT !.status = "RESERVED",
                           !.activeSchedulerReference = job.id],
       jobs |-> {job}, checkedOut |-> {}],
      [row |-> [row EXCEPT !.status = "ONGOING"], jobs |-> {},
       checkedOut |-> {"a1"}]}

InitC ==
  \E store \in StoresC :
    /\ bookings = (1 :> store.row)
    /\ nextBookingId = 1
    /\ assetStatus =
         [a \in Assets |->
            IF a \in store.checkedOut THEN "CHECKED_OUT" ELSE "AVAILABLE"]
    /\ jobs = store.jobs
    /\ nextJobId = Cardinality(store.jobs)
    /\ last = [op |-> "none", arg |-> NoArg, outcome |-> "ok", events |-> <<>>]
    /\ calls = 0
    /\ listed = NotListed
    /\ procs \in [Procs -> {[NoProc EXCEPT !.pc = "start", !.op = c.op,
                                           !.arg = c.arg,
                                           !.outcome = "running"] :
                              c \in CallsC}]
    /\ selectedBulkItems = <<>>

\* whether the scheduler's cancel succeeds, where there is a job to cancel
CancelOkC(b) == IF b.activeSchedulerReference # Null THEN BOOLEAN ELSE {TRUE}

\* a step of call p that writes its local values only
Local(p, proc) ==
  /\ procs' = [procs EXCEPT ![p] = proc]
  /\ UNCHANGED <<bookings, nextBookingId, assetStatus, jobs, nextJobId, last,
                 calls, listed, selectedBulkItems>>

Throw(p) == Local(p, [procs[p] EXCEPT !.pc = "done", !.outcome = "throw"])

\* what follows the booking update in upsertBooking (lines 205-220)
afterUpdate(arg, res, status) ==
  IF status # "none" THEN "assets"
  ELSE IF reminderDue(arg, res) THEN "cancelRes" ELSE "return"

\* lines 165-167: oldBooking is fetched for an update to a terminal status
upsertFindOld(p) ==
  /\ procs[p].op = "upsertBooking"
  /\ procs[p].pc = "start"
  /\ LET terminal == isTerminalState(procs[p].arg.status)
     IN Local(p, [procs[p] EXCEPT
                    !.oldBooking = IF terminal THEN findFirst(procs[p].arg.id)
                                   ELSE NoBooking,
                    !.pc = IF terminal THEN "cancelOld" ELSE "update"])

\* lines 169-181: cancelSheduler(oldBooking)
upsertCancelOld(p) ==
  /\ procs[p].op = "upsertBooking"
  /\ procs[p].pc = "cancelOld"
  /\ \E cancelOk \in CancelOkC(procs[p].oldBooking) :
       /\ jobs' = cancelSheduler(procs[p].oldBooking, jobs, cancelOk)
       /\ procs' = [procs EXCEPT ![p].pc = "update",
                                 ![p].cancelFailed = @ \/ ~cancelOk]
       /\ UNCHANGED <<bookings, nextBookingId, assetStatus, nextJobId, last,
                      calls, listed, selectedBulkItems>>

\* lines 184-203: db.booking.update, then the asset status is decided
upsertUpdate(p) ==
  /\ procs[p].op = "upsertBooking"
  /\ procs[p].pc = "update"
  /\ LET arg == procs[p].arg
         id == arg.id
     IN IF id \notin DOMAIN bookings THEN Throw(p)
        ELSE LET res == updatedRow(bookings[id], bookingData(arg))
                 status == newAssetStatus(arg, procs[p].oldBooking, res)
             IN /\ bookings' = [bookings EXCEPT ![id] = res]
                /\ procs' = [procs EXCEPT
                               ![p].res = res,
                               ![p].status = status,
                               ![p].pc = afterUpdate(arg, res, status)]
                /\ UNCHANGED <<nextBookingId, assetStatus, jobs, nextJobId,
                               last, calls, listed, selectedBulkItems>>

\* lines 206-208: updateBookinAssetStates(res, newAssetStatus)
upsertAssets(p) ==
  /\ procs[p].op = "upsertBooking"
  /\ procs[p].pc = "assets"
  /\ assetStatus' =
       updateBookinAssetStates(procs[p].res, procs[p].status, assetStatus)
  /\ procs' = [procs EXCEPT
                 ![p].pc = afterUpdate(procs[p].arg, procs[p].res, "none")]
  /\ UNCHANGED <<bookings, nextBookingId, jobs, nextJobId, last, calls, listed, selectedBulkItems>>

\* line 210: cancelSheduler(res)
upsertCancelRes(p) ==
  /\ procs[p].op = "upsertBooking"
  /\ procs[p].pc = "cancelRes"
  /\ \E cancelOk \in CancelOkC(procs[p].res) :
       /\ jobs' = cancelSheduler(procs[p].res, jobs, cancelOk)
       /\ procs' = [procs EXCEPT ![p].pc = "sendAfter",
                                 ![p].cancelFailed = @ \/ ~cancelOk]
       /\ UNCHANGED <<bookings, nextBookingId, assetStatus, nextJobId, last,
                      calls, listed, selectedBulkItems>>

\* line 60: id = await scheduler.sendAfter(key, data, {}, when)
upsertSendAfter(p) ==
  /\ procs[p].op = "upsertBooking"
  /\ procs[p].pc = "sendAfter"
  /\ LET job == sendAfter(checkoutReminder, procs[p].arg.id,
                          reminderWhen(procs[p].res.from), nextJobId)
     IN /\ jobs' = jobs \cup {job}
        /\ nextJobId' = nextJobId + 1
        /\ procs' = [procs EXCEPT ![p].job = job.id, ![p].pc = "setReference"]
        /\ UNCHANGED <<bookings, nextBookingId, assetStatus, last, calls, listed, selectedBulkItems>>

\* lines 61-64: db.booking.update({ data: { activeSchedulerReference: id } })
upsertSetReference(p) ==
  /\ procs[p].op = "upsertBooking"
  /\ procs[p].pc = "setReference"
  /\ LET id == procs[p].arg.id
     IN IF id \notin DOMAIN bookings THEN Throw(p)
        ELSE /\ bookings' = [bookings EXCEPT
                               ![id].activeSchedulerReference = procs[p].job]
             /\ procs' = [procs EXCEPT ![p].pc = "return"]
             /\ UNCHANGED <<nextBookingId, assetStatus, jobs, nextJobId, last,
                            calls, listed, selectedBulkItems>>

\* lines 273-274: await Promise.all(promises); return res
upsertReturn(p) ==
  /\ procs[p].op = "upsertBooking"
  /\ procs[p].pc = "return"
  /\ Local(p, [procs[p] EXCEPT !.pc = "done", !.outcome = "ok"])

\* lines 436-441: activeBooking
deleteFindActive(p) ==
  /\ procs[p].op = "deleteBooking"
  /\ procs[p].pc = "start"
  /\ LET b == findFirst(procs[p].arg.id)
     IN Local(p, [procs[p] EXCEPT
                    !.oldBooking = IF b.status \in {"OVERDUE", "ONGOING"}
                                   THEN b ELSE NoBooking,
                    !.pc = "delete"])

\* lines 442-471: db.booking.delete; b has no custodian to mail
deleteRow(p) ==
  /\ procs[p].op = "deleteBooking"
  /\ procs[p].pc = "delete"
  /\ LET id == procs[p].arg.id
     IN IF id \notin DOMAIN bookings THEN Throw(p)
        ELSE /\ bookings' = [i \in DOMAIN bookings \ {id} |-> bookings[i]]
             /\ procs' = [procs EXCEPT
                            ![p].res = bookings[id],
                            ![p].pc = IF procs[p].oldBooking.status # "none"
                                      THEN "assets" ELSE "cancel"]
             /\ UNCHANGED <<nextBookingId, assetStatus, jobs, nextJobId, last,
                            calls, listed, selectedBulkItems>>

\* lines 474-476: updateBookinAssetStates(b, AVAILABLE)
deleteAssets(p) ==
  /\ procs[p].op = "deleteBooking"
  /\ procs[p].pc = "assets"
  /\ assetStatus' = updateBookinAssetStates(procs[p].res, "AVAILABLE", assetStatus)
  /\ procs' = [procs EXCEPT ![p].pc = "cancel"]
  /\ UNCHANGED <<bookings, nextBookingId, jobs, nextJobId, last, calls, listed, selectedBulkItems>>

\* lines 477-479: cancelSheduler(b); return b
deleteCancel(p) ==
  /\ procs[p].op = "deleteBooking"
  /\ procs[p].pc = "cancel"
  /\ \E cancelOk \in CancelOkC(procs[p].res) :
       /\ jobs' = cancelSheduler(procs[p].res, jobs, cancelOk)
       /\ procs' = [procs EXCEPT ![p].pc = "done", ![p].outcome = "ok",
                                 ![p].cancelFailed = @ \/ ~cancelOk]
       /\ UNCHANGED <<bookings, nextBookingId, assetStatus, nextJobId, last,
                      calls, listed, selectedBulkItems>>

NextC ==
  \E p \in Procs :
    \/ upsertFindOld(p)
    \/ upsertCancelOld(p)
    \/ upsertUpdate(p)
    \/ upsertAssets(p)
    \/ upsertCancelRes(p)
    \/ upsertSendAfter(p)
    \/ upsertSetReference(p)
    \/ upsertReturn(p)
    \/ deleteFindActive(p)
    \/ deleteRow(p)
    \/ deleteAssets(p)
    \/ deleteCancel(p)

SpecC == InitC /\ [][NextC]_vars

\* --------------------------------------- claims on calls at the same time
AllDone == \A p \in Procs : procs[p].pc = "done"
CancelsSucceeded == \A p \in Procs : ~procs[p].cancelFailed

\* the pending jobs of booking 1
Pending == {j \in jobs : j.booking = 1}

\* C12: when two upsertBooking calls on the same booking have both completed
\* and every scheduler cancel succeeded, the booking has at most one pending
\* job, and that job is the one its activeSchedulerReference names.
C12_OnePendingJobAfterConcurrentUpserts ==
  (/\ AllDone
   /\ CancelsSucceeded
   /\ \A p \in Procs : procs[p].op = "upsertBooking")
  => /\ Cardinality(Pending) <= 1
     /\ \A j \in Pending : findFirst(1).activeSchedulerReference = j.id

\* C13: when a call that reserves the booking and a call that ends it (an
\* update to ARCHIVED, CANCELLED or COMPLETE, or a delete) have both
\* completed and every scheduler cancel succeeded, no job is pending for the
\* booking if it is deleted or its status is ARCHIVED, CANCELLED or COMPLETE.
C13_NoPendingJobForEndedBooking ==
  (/\ AllDone
   /\ CancelsSucceeded
   /\ \E p, q \in Procs :
        /\ procs[p].op = "upsertBooking"
        /\ procs[p].arg.status = "RESERVED"
        /\ \/ procs[q].op = "deleteBooking"
           \/ (procs[q].op = "upsertBooking"
               /\ isTerminalState(procs[q].arg.status))
   /\ (1 \notin DOMAIN bookings \/ isTerminalState(bookings[1].status)))
  => Pending = {}

\* ------------------------------------------------------ the bulk selection
\* the atoms of the bulk selection (selectedBulkItemsAtom and the atoms that
\* write it); the item ids and the lists setSelectedBulkItemsAtom is given
MaxSelected == 3
Items == {"i1", "i2", "i3"}

ItemLists == UNION {[1..n -> Items] : n \in 0..MaxSelected}

\* prev.includes(update)
includes(prev, update) == \E i \in DOMAIN prev : prev[i] = update

\* prev.filter((item) => item !== update)
filter(prev, update) == SelectSeq(prev, LAMBDA item : item # update)

\* setSelectedBulkItem that takes out the first occurrence only
setSelectedBulkItemFirstOnly(prev, update) ==
  IF includes(prev, update)
  THEN LET i == CHOOSE k \in DOMAIN prev :
                  prev[k] = update /\ \A j \in 1..(k - 1) : prev[j] # update
       IN SubSeq(prev, 1, i - 1) \o SubSeq(prev, i + 1, Len(prev))
  ELSE Append(prev, update)

\* lines 21-27: the function setSelectedBulkItemAtom sets the list with
setSelectedBulkItem(prev, update) ==
  IF includes(prev, update) THEN filter(prev, update) ELSE Append(prev, update)

\* lines 11-13: get(selectedBulkItemsAtom).length
selectedBulkItemsCount == Len(selectedBulkItems)

\* a write of one of the atoms: the list is set, the rest is left alone;
\* last keeps the atom written and the list of what it was given
Set(op, update, list) ==
  /\ selectedBulkItems' = list
  /\ last' = [op |-> op, arg |-> update, outcome |-> "ok", events |-> <<>>]
  /\ UNCHANGED <<bookings, nextBookingId, assetStatus, jobs, nextJobId, calls,
                 listed, procs>>

InitA ==
  /\ bookings = <<>>
  /\ nextBookingId = 0
  /\ assetStatus = [a \in Assets |-> "AVAILABLE"]
  /\ jobs = {}
  /\ nextJobId = 0
  /\ last = [op |-> "none", arg |-> <<>>, outcome |-> "ok", events |-> <<>>]
  /\ calls = 0
  /\ listed = NotListed
  /\ procs = NoProcs
  /\ selectedBulkItems = <<>>

\* lines 6-8: the list is reset when the atom mounts
onMount ==
  /\ selectedBulkItems' = <<>>
  /\ last' = [op |-> "onMount", arg |-> <<>>, outcome |-> "ok", events |-> <<>>]
  /\ UNCHANGED <<bookings, nextBookingId, assetStatus, jobs, nextJobId, calls,
                 listed, procs>>

\* lines 18-29
setSelectedBulkItemAtom ==
  \E update \in Items :
    /\ update \in Items
    /\ Set("setSelectedBulkItemAtom", <<update>>,
           setSelectedBulkItem(selectedBulkItems, update))

\* lines 34-39
setSelectedBulkItemsAtom ==
  \E update \in ItemLists :
    /\ update \in ItemLists
    /\ Set("setSelectedBulkItemsAtom", update, update)

NextA == onMount \/ setSelectedBulkItemAtom \/ setSelectedBulkItemsAtom

SpecA == InitA /\ [][NextA]_vars

\* ------------------------------------------- claims on the bulk selection
Selected(list) == {list[i] : i \in DOMAIN list}
Occurrences(list, item) == Cardinality({i \in DOMAIN list : list[i] = item})

\* C19: setSelectedBulkItemAtom leaves its item selected if and only if it
\* was not selected before and changes no other item's membership; toggling
\* the same item once more gives back the set of items selected before; and
\* after every write the count is the length of the list, which a toggle
\* lengthens by one or shortens by the occurrences it takes out.
C19_ToggleOneItem ==
  [][/\ last'.op = "setSelectedBulkItemAtom" =>
          LET item == last'.arg[1]
          IN /\ item \in Selected(selectedBulkItems')
                  <=> item \notin Selected(selectedBulkItems)
             /\ \A other \in Items \ {item} :
                  other \in Selected(selectedBulkItems')
                    <=> other \in Selected(selectedBulkItems)
             /\ Selected(setSelectedBulkItem(selectedBulkItems', item))
                  = Selected(selectedBulkItems)
             /\ selectedBulkItemsCount' =
                  IF item \in Selected(selectedBulkItems)
                  THEN selectedBulkItemsCount
                         - Occurrences(selectedBulkItems, item)
                  ELSE selectedBulkItemsCount + 1
     /\ last'.op = "setSelectedBulkItemsAtom" =>
          /\ selectedBulkItems' = last'.arg
          /\ selectedBulkItemsCount' = Len(last'.arg)]_vars

\* i1 is toggled out of a list that holds another item twice
C19_Witness ==
  /\ last.op = "setSelectedBulkItemAtom"
  /\ last.arg = <<"i1">>
  /\ selectedBulkItems = <<"i2", "i2">>
  /\ selectedBulkItemsCount = 2

====
